---------------------------- MODULE Spec2Model ----------------------------
(***************************************************************************)
(* A model of the CSV/JSON upload service of main.py: the separator        *)
(* detector, the JSON structure validator, the value canonicalizer, the    *)
(* loader, the HTTP handlers and the storage directory with its sweep.     *)
(*                                                                         *)
(* Text (a Python str or bytes) is a sequence of one-character strings.    *)
(***************************************************************************)
EXTENDS Integers, Sequences, FiniteSets, TLC

VARIABLES
    storage,   \* the files of STORAGE_DIR: a set of [name, content, mtime]
    clock,     \* time.time(), in seconds
    ticks,     \* how many times the clock has advanced
    issued,    \* the ids uuid.uuid4() has returned so far
    puts,      \* history: the uploads that were stored and answered with their id
    sweep,     \* history: the most recent run of cleanup_old_files
    req,       \* the request (or function argument) last handled
    resp       \* the response (or function result) it produced

vars == <<storage, clock, ticks, issued, puts, sweep, req, resp>>

storeVars == <<storage, clock, ticks, issued, puts, sweep>>

(***************************************************************************)
(* Python str helpers.                                                     *)
(***************************************************************************)

\* str.startswith
StartsWith(s, p) ==
    /\ Len(p) <= Len(s)
    /\ SubSeq(s, 1, Len(p)) = p

\* str.endswith
EndsWith(s, p) ==
    /\ Len(p) <= Len(s)
    /\ SubSeq(s, Len(s) - Len(p) + 1, Len(s)) = p

\* str.split(d, maxsplit): at most maxsplit cuts, the rest kept whole;
\* maxsplit < 0 cuts at every d
RECURSIVE SplitFrom(_, _, _, _, _)
SplitFrom(s, d, maxsplit, i, cur) ==
    IF i > Len(s) THEN <<cur>>
    ELSE IF s[i] = d /\ maxsplit # 0
         THEN <<cur>> \o SplitFrom(s, d, maxsplit - 1, i + 1, <<>>)
         ELSE SplitFrom(s, d, maxsplit, i + 1, Append(cur, s[i]))

Split(s, d) == SplitFrom(s, d, -1, 1, <<>>)

SplitN(s, d, maxsplit) == SplitFrom(s, d, maxsplit, 1, <<>>)

\* str.count of a single character
Count(s, c) == Cardinality({i \in 1..Len(s) : s[i] = c})

\* the characters str.strip() removes
Whitespace == {" ", "\t", "\n", "\r"}

\* str.strip() = "": the line holds whitespace only
IsBlank(s) == \A i \in 1..Len(s) : s[i] \in Whitespace

\* list slicing xs[:n]
Take(xs, n) == SubSeq(xs, 1, IF Len(xs) < n THEN Len(xs) ELSE n)

RECURSIVE SumSeq(_)
SumSeq(xs) == IF xs = <<>> THEN 0 ELSE Head(xs) + SumSeq(Tail(xs))

Range(xs) == {xs[i] : i \in 1..Len(xs)}

(***************************************************************************)
(* FileUtils.detect_csv_separator                                          *)
(***************************************************************************)

COMMON_SEPARATORS == <<",", ";", "\t", "|">>

\* content.split('\n')[:5]
SAMPLE_LINES == 5

\* a slip: every line is sampled
sample_lines_all(content) == Split(content, "\n")

sample_lines(content) == Take(Split(content, "\n"), SAMPLE_LINES)

\* the loop of lines 62-68: the positive counts of sep over the non-blank
\* sampled lines, in line order
separator_counts(content, sep) ==
    LET ls == sample_lines(content)
        RECURSIVE Collect(_)
        Collect(i) ==
            IF i > Len(ls) THEN <<>>
            ELSE IF IsBlank(ls[i]) THEN Collect(i + 1)
            ELSE IF Count(ls[i], sep) > 0
                 THEN <<Count(ls[i], sep)>> \o Collect(i + 1)
                 ELSE Collect(i + 1)
    IN Collect(1)

\* len(set(counts)) == 1 and counts[0] > 0
Consistent(counts) ==
    /\ counts # <<>>
    /\ Cardinality(Range(counts)) = 1
    /\ counts[1] > 0

\* The loop of lines 74-87 from candidate j on; best is the separator kept so
\* far and bn/bd its average (best_consistency) as a fraction.
RECURSIVE DetectFrom(_, _, _, _, _)
DetectFrom(content, j, best, bn, bd) ==
    IF j > Len(COMMON_SEPARATORS) THEN best
    ELSE LET sep == COMMON_SEPARATORS[j]
             counts == separator_counts(content, sep)
         IN IF counts = <<>> THEN DetectFrom(content, j + 1, best, bn, bd)
            ELSE IF Consistent(counts) THEN sep
            ELSE IF SumSeq(counts) * bd > bn * Len(counts)
                 THEN DetectFrom(content, j + 1, sep, SumSeq(counts), Len(counts))
                 ELSE DetectFrom(content, j + 1, best, bn, bd)

detect_csv_separator(content) == DetectFrom(content, 1, ",", 0, 1)


(***************************************************************************)
(* Python values: [t |-> type, v |-> payload].  A str payload is text, a   *)
(* list or tuple payload a sequence of values, a dict payload the sequence *)
(* of its <<key, value>> items in insertion order.                         *)
(***************************************************************************)

PyNone == [t |-> "NoneType", v |-> 0]
PyBool(b) == [t |-> "bool", v |-> b]
PyInt(n) == [t |-> "int", v |-> n]
PyFloat(n) == [t |-> "float", v |-> n]
PyNaN == [t |-> "float_nan", v |-> 0]            \* float('nan')
PyInf == [t |-> "float_inf", v |-> 0]            \* float('inf')
PyStr(s) == [t |-> "str", v |-> s]
PyList(xs) == [t |-> "list", v |-> xs]
PyTuple(xs) == [t |-> "tuple", v |-> xs]
PyDict(items) == [t |-> "dict", v |-> items]
NpInt64(n) == [t |-> "np.int64", v |-> n]
NpFloat64(n) == [t |-> "np.float64", v |-> n]
NpFloat64NaN == [t |-> "np.float64_nan", v |-> 0]   \* np.float64('nan')
PdTimestamp(s) == [t |-> "pd.Timestamp", v |-> s]   \* s is str(value)
PdTimedelta(s) == [t |-> "pd.Timedelta", v |-> s]
PdNaT == [t |-> "pd.NaT", v |-> 0]
PdNA == [t |-> "pd.NA", v |-> 0]

\* bool(value) for the values json.loads returns (`not json_data`, line 259)
Truthy(x) ==
    CASE x.t = "NoneType" -> FALSE
      [] x.t = "bool" -> x.v
      [] x.t \in {"int", "float"} -> x.v # 0
      [] x.t \in {"str", "list", "dict", "tuple"} -> x.v # <<>>
      [] OTHER -> TRUE

\* dict[k] = v: a repeated key keeps its place and takes the new value
DictSet(items, k, v) ==
    IF \E i \in 1..Len(items) : items[i][1] = k
    THEN [i \in 1..Len(items) |->
             IF items[i][1] = k THEN <<k, v>> ELSE items[i]]
    ELSE Append(items, <<k, v>>)

\* dict.values()
DictValues(d) == [i \in 1..Len(d.v) |-> d.v[i][2]]

\* dict.keys()
DictKeys(d) == [i \in 1..Len(d.v) |-> d.v[i][1]]

(***************************************************************************)
(* json.loads, for documents of integers, unescaped strings, null, true,   *)
(* false, NaN, arrays and objects.                                         *)
(***************************************************************************)

Digits == {"0", "1", "2", "3", "4", "5", "6", "7", "8", "9"}

DigitVal(c) ==
    CASE c = "0" -> 0 [] c = "1" -> 1 [] c = "2" -> 2 [] c = "3" -> 3
      [] c = "4" -> 4 [] c = "5" -> 5 [] c = "6" -> 6 [] c = "7" -> 7
      [] c = "8" -> 8 [] c = "9" -> 9

RECURSIVE SkipWs(_, _)
SkipWs(s, i) ==
    IF i <= Len(s) /\ s[i] \in Whitespace THEN SkipWs(s, i + 1) ELSE i

At(s, i, c) == i <= Len(s) /\ s[i] = c

Lit(s, i, word) ==
    /\ i + Len(word) - 1 <= Len(s)
    /\ SubSeq(s, i, i + Len(word) - 1) = word

ParseFail == [ok |-> FALSE, val |-> PyNone, next |-> 0]

ParseOk(val, next) == [ok |-> TRUE, val |-> val, next |-> next]

\* the digits of a number from position i, n the value read so far
RECURSIVE ParseDigits(_, _, _)
ParseDigits(s, i, n) ==
    IF i <= Len(s) /\ s[i] \in Digits
    THEN ParseDigits(s, i + 1, 10 * n + DigitVal(s[i]))
    ELSE ParseOk(PyInt(n), i)

\* the characters of a string from position i up to its closing quote
RECURSIVE ParseChars(_, _, _)
ParseChars(s, i, acc) ==
    IF i > Len(s) THEN ParseFail
    ELSE IF s[i] = "\"" THEN ParseOk(PyStr(acc), i + 1)
    ELSE IF s[i] \in {"\\", "\n", "\t", "\r"} THEN ParseFail
    ELSE ParseChars(s, i + 1, Append(acc, s[i]))

RECURSIVE ParseValue(_, _), ParseElems(_, _, _), ParseMembers(_, _, _)
ParseValue(s, i0) ==
    LET i == SkipWs(s, i0) IN
    IF i > Len(s) THEN ParseFail
    ELSE IF s[i] = "[" THEN
        IF At(s, SkipWs(s, i + 1), "]")
        THEN ParseOk(PyList(<<>>), SkipWs(s, i + 1) + 1)
        ELSE LET elems == ParseElems(s, i + 1, Len(s)) IN
             IF elems.ok /\ elems.closed
             THEN ParseOk(PyList(elems.vals), elems.next)
             ELSE ParseFail
    ELSE IF s[i] = "{" THEN
        IF At(s, SkipWs(s, i + 1), "}")
        THEN ParseOk(PyDict(<<>>), SkipWs(s, i + 1) + 1)
        ELSE ParseMembers(s, i + 1, <<>>)
    ELSE IF s[i] = "\"" THEN ParseChars(s, i + 1, <<>>)
    ELSE IF s[i] = "0" THEN ParseOk(PyInt(0), i + 1)
    ELSE IF s[i] \in Digits THEN ParseDigits(s, i, 0)
    ELSE IF Lit(s, i, <<"n", "u", "l", "l">>) THEN ParseOk(PyNone, i + 4)
    ELSE IF Lit(s, i, <<"t", "r", "u", "e">>) THEN ParseOk(PyBool(TRUE), i + 4)
    ELSE IF Lit(s, i, <<"f", "a", "l", "s", "e">>)
         THEN ParseOk(PyBool(FALSE), i + 5)
    ELSE IF Lit(s, i, <<"N", "a", "N">>) THEN ParseOk(PyNaN, i + 3)
    ELSE IF Lit(s, i, <<"I", "n", "f", "i", "n", "i", "t", "y">>)
         THEN ParseOk(PyInf, i + 8)
    ELSE ParseFail

\* the elements of a list from position i, at most k of them: the values
\* read, the position after them, and whether the closing bracket was read.
\* The run is read in two halves, which keeps the evaluation shallow for a
\* list of many elements.
ParseElems(s, i, k) ==
    IF k <= 1
    THEN LET r == ParseValue(s, i)
             j == SkipWs(s, r.next)
         IN IF ~r.ok THEN [ok |-> FALSE, vals |-> <<>>, next |-> 0, closed |-> FALSE]
            ELSE IF At(s, j, ",")
            THEN [ok |-> TRUE, vals |-> <<r.val>>, next |-> j + 1, closed |-> FALSE]
            ELSE IF At(s, j, "]")
            THEN [ok |-> TRUE, vals |-> <<r.val>>, next |-> j + 1, closed |-> TRUE]
            ELSE [ok |-> FALSE, vals |-> <<>>, next |-> 0, closed |-> FALSE]
    ELSE LET first == ParseElems(s, i, k \div 2) IN
         IF ~first.ok \/ first.closed THEN first
         ELSE LET rest == ParseElems(s, first.next, k - (k \div 2)) IN
              IF ~rest.ok THEN rest
              ELSE [ok |-> TRUE, vals |-> first.vals \o rest.vals,
                    next |-> rest.next, closed |-> rest.closed]

ParseMembers(s, i, acc) ==
    LET k == SkipWs(s, i)
        key == IF At(s, k, "\"") THEN ParseChars(s, k + 1, <<>>) ELSE ParseFail
        c == SkipWs(s, key.next)
        r == IF key.ok /\ At(s, c, ":") THEN ParseValue(s, c + 1) ELSE ParseFail
        j == SkipWs(s, r.next)
    IN IF ~r.ok THEN ParseFail
       ELSE IF At(s, j, ",")
            THEN ParseMembers(s, j + 1, DictSet(acc, key.val.v, r.val))
       ELSE IF At(s, j, "}")
            THEN ParseOk(PyDict(DictSet(acc, key.val.v, r.val)), j + 1)
       ELSE ParseFail

\* json.loads(text): the value, or ok = FALSE for json.JSONDecodeError
json_loads(text) ==
    LET r == ParseValue(text, 1) IN
    IF r.ok /\ SkipWs(text, r.next) > Len(text)
    THEN [ok |-> TRUE, val |-> r.val]
    ELSE [ok |-> FALSE, val |-> PyNone]


(***************************************************************************)
(* An upload's bytes: body, followed by pad newline bytes.  The padding    *)
(* stands for the tail of a large upload, so that a content of 20 MiB is a *)
(* short body and a number.                                                *)
(***************************************************************************)

ByteLen(content) == Len(content.body) + content.pad

Newlines(n) == [i \in 1..n |-> "\n"]

Min(a, b) == IF a < b THEN a ELSE b

\* bytes that are no valid UTF-8: here the byte 0xFF
InvalidUtf8 == {"\\xff"}

\* bytes.decode('latin-1') of one byte
Latin1(b) == IF b = "\\xff" THEN "U+00FF" ELSE b

\* FileUtils.decode_content: UTF-8, and Latin-1 when that raises.  Of the
\* padding, the first SAMPLE_LINES newlines are kept: the separator detector
\* reads 5 lines, and json.loads and read_csv skip trailing blank lines.
decode_content(content) ==
    LET body == IF \E i \in 1..Len(content.body) : content.body[i] \in InvalidUtf8
                THEN [i \in 1..Len(content.body) |-> Latin1(content.body[i])]
                ELSE content.body
    IN body \o Newlines(Min(content.pad, SAMPLE_LINES))

(***************************************************************************)
(* FileValidator                                                           *)
(***************************************************************************)

MAX_FILE_SIZE == 20971520     \* 20 * 1024 * 1024

\* a validator's result; keys, items, rows, columns are -1 when the dict has
\* no such key (.get() returns None)
Invalid(message) ==
    [valid |-> FALSE, message |-> message, type |-> "", keys |-> -1,
     items |-> -1, rows |-> -1, columns |-> -1]

Valid(message) ==
    [valid |-> TRUE, message |-> message, type |-> "", keys |-> -1,
     items |-> -1, rows |-> -1, columns |-> -1]

MsgSizeExceeded == <<"Plik za duzy. Max: ", "20.0", " MB">>
MsgJsonEmpty == <<"Plik JSON jest pusty">>
MsgListOfObjects == <<"JSON musi byc lista obiektow (slownikow)">>
MsgNestedObjects == <<"JSON nie moze zawierac zagniezdzonych obiektow">>
MsgComplexLists == <<"Listy w JSON nie moga zawierac zlozonych struktur">>
MsgObjectOrList == <<"JSON musi byc obiektem lub lista obiektow">>
MsgJsonParse == <<"Blad parsowania JSON: ", "JSONDecodeError">>

\* a slip: a file of exactly the limit is refused
validate_file_size_at_limit(file) ==
    IF ByteLen(file.content) >= MAX_FILE_SIZE
    THEN Invalid(MsgSizeExceeded)
    ELSE Valid(<<"Rozmiar OK">>)

\* FileValidator.validate_file_size: file.file.tell() at the end of the file
validate_file_size(file) ==
    IF ByteLen(file.content) > MAX_FILE_SIZE
    THEN Invalid(MsgSizeExceeded)
    ELSE Valid(<<"Rozmiar OK">>)

lower(s) == [i \in 1..Len(s) |->
                CASE s[i] = "C" -> "c" [] s[i] = "S" -> "s" [] s[i] = "V" -> "v"
                  [] s[i] = "J" -> "j" [] s[i] = "O" -> "o" [] s[i] = "N" -> "n"
                  [] s[i] = "A" -> "a" [] s[i] = "B" -> "b" [] s[i] = "T" -> "t"
                  [] s[i] = "X" -> "x"
                  [] OTHER -> s[i]]

ExtCsv == <<".", "c", "s", "v">>
ExtJson == <<".", "j", "s", "o", "n">>

\* FileValidator.validate_csv_format
validate_csv_format(file) ==
    IF file.filename = <<>> \/ ~EndsWith(lower(file.filename), ExtCsv)
    THEN Invalid(<<"Plik musi miec rozszerzenie .csv">>)
    ELSE Valid(<<"Format CSV OK">>)

\* FileValidator.validate_json_format
validate_json_format(file) ==
    IF file.filename = <<>> \/ ~EndsWith(lower(file.filename), ExtJson)
    THEN Invalid(<<"Plik musi miec rozszerzenie .json">>)
    ELSE Valid(<<"Format JSON OK">>)

\* a slip: only nested objects count as complex, nested lists pass
IsComplex_dict_only(x) == x.t \in {"dict"}

\* isinstance(item, (dict, list))
IsComplex(x) == x.t \in {"dict", "list"}

\* a slip: only the first item is looked at
AllDicts_first_only(xs) == xs[1].t = "dict"

\* all(isinstance(item, dict) for item in json_data)
AllDicts(xs) == \A i \in 1..Len(xs) : xs[i].t = "dict"

\* the loop of lines 278-288 over json_data.values() from value i on: the
\* failure of the first value that has one, else the valid result
RECURSIVE CheckDictValues(_, _)
CheckDictValues(json_data, i) ==
    LET values == DictValues(json_data) IN
    IF i > Len(values)
    THEN [Valid(<<"Zawartosc JSON OK">>) EXCEPT
              !.type = "dict", !.keys = Len(DictKeys(json_data))]
    ELSE IF values[i].t = "dict" THEN Invalid(MsgNestedObjects)
    ELSE IF /\ values[i].t = "list"
            /\ \E k \in 1..Len(values[i].v) : IsComplex(values[i].v[k])
         THEN Invalid(MsgComplexLists)
    ELSE CheckDictValues(json_data, i + 1)

\* lines 258-299 of validate_json_content: the checks on the parsed document
CheckJsonStructure(json_data) ==
    IF ~Truthy(json_data) THEN Invalid(MsgJsonEmpty)
    ELSE IF json_data.t = "list" THEN
        IF json_data.v = <<>> \/ ~AllDicts(json_data.v)
        THEN Invalid(MsgListOfObjects)
        ELSE [Valid(<<"Zawartosc JSON OK">>) EXCEPT
                  !.type = "list", !.items = Len(json_data.v)]
    ELSE IF json_data.t = "dict" THEN CheckDictValues(json_data, 1)
    ELSE Invalid(MsgObjectOrList)

\* FileValidator.validate_json_content
validate_json_content(file) ==
    LET parsed == json_loads(decode_content(file.content)) IN
    IF ~parsed.ok THEN Invalid(MsgJsonParse)
    ELSE CheckJsonStructure(parsed.val)

(***************************************************************************)
(* FileLoader._convert_to_serializable                                     *)
(***************************************************************************)

\* pd.isna of a scalar
isna(value) ==
    value.t \in {"NoneType", "float_nan", "np.float64_nan", "pd.NaT", "pd.NA"}

RECURSIVE _convert_to_serializable(_)
_convert_to_serializable(value) ==
    IF value.t \in {"pd.Timestamp", "pd.Timedelta"} THEN PyStr(value.v)
    ELSE IF value.t = "np.int64" THEN PyInt(value.v)
    ELSE IF value.t = "np.float64" THEN PyFloat(value.v)
    ELSE IF value.t = "np.float64_nan" THEN PyNaN
    ELSE IF value.t = "dict"
         THEN PyDict([i \in 1..Len(value.v) |->
                  <<value.v[i][1], _convert_to_serializable(value.v[i][2])>>])
    ELSE IF value.t \in {"list", "tuple"}
         THEN PyList([i \in 1..Len(value.v) |->
                  _convert_to_serializable(value.v[i])])
    ELSE IF isna(value) THEN PyNone
    ELSE value


(***************************************************************************)
(* pandas, as far as the loader uses it.  A DataFrame is [columns, dtypes, *)
(* rows]: the column names, each column's dtype and the rows of cells.     *)
(* read_csv is modelled for unquoted fields and distinct column names.     *)
(***************************************************************************)

Exception(type, msg) == [type |-> type, status_code |-> 0, msg |-> msg]

HTTPException(status_code, detail) ==
    [type |-> "HTTPException", status_code |-> status_code, msg |-> detail]

NoException == Exception("", <<>>)

\* the lines read_csv keeps (skip_blank_lines): a line of spaces and tabs
\* that are not the delimiter is skipped, and so is an empty line
CsvSkipped(line, sep) == \A i \in 1..Len(line) : line[i] \in {" ", "\t"} \ {sep}

RECURSIVE CsvLines(_, _, _)
CsvLines(ls, sep, i) ==
    IF i > Len(ls) THEN <<>>
    ELSE IF CsvSkipped(ls[i], sep) THEN CsvLines(ls, sep, i + 1)
    ELSE <<Split(ls[i], sep)>> \o CsvLines(ls, sep, i + 1)

\* the default na_values a cell may spell
NaStrings ==
    { <<>>, <<"N", "A">>, <<"N", "a", "N">>, <<"n", "a", "n">>,
      <<"n", "u", "l", "l">> }

IsIntText(s) == s # <<>> /\ \A i \in 1..Len(s) : s[i] \in Digits

\* the dtype read_csv infers for a column from its cells' texts
InferDtype(cells) ==
    IF cells = <<>> THEN "object"
    ELSE IF \A i \in 1..Len(cells) : IsIntText(cells[i]) THEN "int64"
    ELSE IF \A i \in 1..Len(cells) : IsIntText(cells[i]) \/ cells[i] \in NaStrings
         THEN "float64"
    ELSE "object"

\* a cell as DataFrame.to_dict('records') hands it out: boxed in numpy's
\* types, or (native) in Python's, as the installed pandas does
CellValue(text, dtype, native) ==
    IF text \in NaStrings
    THEN IF dtype = "float64" /\ ~native THEN NpFloat64NaN ELSE PyNaN
    ELSE IF dtype = "int64"
         THEN IF native THEN ParseDigits(text, 1, 0).val
              ELSE NpInt64(ParseDigits(text, 1, 0).val.v)
    ELSE IF dtype = "float64"
         THEN IF native THEN PyFloat(ParseDigits(text, 1, 0).val.v)
              ELSE NpFloat64(ParseDigits(text, 1, 0).val.v)
    ELSE PyStr(text)

Max(a, b) == IF a > b THEN a ELSE b

\* pd.read_csv(io.StringIO(text), sep=sep): the first kept line is the
\* header; a first data line wider than the header makes the extra leading
\* fields the index; a later line wider than that raises ParserError; a
\* narrower line is filled with missing cells
read_csv(text, sep) ==
    LET ls == CsvLines(Split(text, "\n"), sep, 1)
        header == ls[1]
        width == IF Len(ls) = 1 THEN Len(header) ELSE Max(Len(header), Len(ls[2]))
        index == width - Len(header)
        cell(r, c) == IF c + index <= Len(ls[r + 1]) THEN ls[r + 1][c + index]
                      ELSE <<>>
        rows == [r \in 1..(Len(ls) - 1) |-> [c \in 1..Len(header) |-> cell(r, c)]]
    IN IF ls = <<>>
       THEN [ok |-> FALSE,
             exc |-> Exception("EmptyDataError", <<"No columns to parse from file">>),
             df |-> [columns |-> <<>>, dtypes |-> <<>>, rows |-> <<>>]]
       ELSE IF \E r \in 3..Len(ls) : Len(ls[r]) > width
       THEN [ok |-> FALSE,
             exc |-> Exception("ParserError", <<"Error tokenizing data. C error">>),
             df |-> [columns |-> <<>>, dtypes |-> <<>>, rows |-> <<>>]]
       ELSE [ok |-> TRUE, exc |-> NoException,
             df |-> [columns |-> header,
                     dtypes |-> [c \in 1..Len(header) |->
                                    InferDtype([r \in 1..Len(rows) |-> rows[r][c]])],
                     rows |-> rows]]

\* df.head(n).to_dict('records')
to_dict_records(df, n, native) ==
    [r \in 1..Min(n, Len(df.rows)) |->
        PyDict([c \in 1..Len(df.columns) |->
                   <<df.columns[c], CellValue(df.rows[r][c], df.dtypes[c], native)>>])]

\* where a key appears first in a list of dicts: the dict, and the place in it
FirstSeen(records, key) ==
    LET i == CHOOSE r \in 1..Len(records) :
                 /\ key \in Range(DictKeys(records[r]))
                 /\ \A q \in 1..(r - 1) : key \notin Range(DictKeys(records[q]))
    IN <<i, CHOOSE k \in 1..Len(DictKeys(records[i])) : DictKeys(records[i])[k] = key>>

\* the keys of a list of dicts in order of first appearance
UnionKeys(records) ==
    LET keys == UNION {Range(DictKeys(records[r])) : r \in 1..Len(records)}
        Earlier(a, b) ==
            \/ FirstSeen(records, a)[1] < FirstSeen(records, b)[1]
            \/ /\ FirstSeen(records, a)[1] = FirstSeen(records, b)[1]
               /\ FirstSeen(records, a)[2] < FirstSeen(records, b)[2]
    IN [n \in 1..Cardinality(keys) |->
           CHOOSE key \in keys :
               Cardinality({other \in keys : Earlier(other, key)}) = n - 1]

\* objects tuple() cannot iterate
NotIterable(x) ==
    x.t \in {"int", "float", "float_nan", "float_inf", "bool", "NoneType"}

\* pd.DataFrame.from_records(data) of a list json.loads returned: rows and
\* columns only.  A list of dicts has the union of the keys as columns; a
\* first element that is no list and no dict makes pandas call tuple() on
\* every element, which raises TypeError for a number, a bool or None.
from_records(data) ==
    IF data = <<>>
    THEN [ok |-> TRUE, exc |-> NoException, rows |-> 0, columns |-> <<>>]
    ELSE IF \A i \in 1..Len(data) : data[i].t = "dict"
    THEN [ok |-> TRUE, exc |-> NoException, rows |-> Len(data),
          columns |-> UnionKeys(data)]
    ELSE IF data[1].t \notin {"dict", "list"} /\ \E i \in 1..Len(data) : NotIterable(data[i])
    THEN [ok |-> FALSE,
          exc |-> Exception("TypeError", <<"object is not iterable">>),
          rows |-> 0, columns |-> <<>>]
    ELSE [ok |-> TRUE, exc |-> NoException, rows |-> Len(data), columns |-> <<>>]

\* pd.DataFrame([json_data]): one row; a dict gives its keys as columns, any
\* other value the single column 0
single_row_frame(json_data) ==
    [ok |-> TRUE, exc |-> NoException, rows |-> 1,
     columns |-> IF json_data.t = "dict" THEN DictKeys(json_data) ELSE <<<<"0">>>>]

(***************************************************************************)
(* FileLoader.load_file                                                    *)
(***************************************************************************)

MsgUnsupported == <<"Nieobslugiwany format pliku. Obslugiwane: .csv, .json">>
MsgLoadPrefix == "Blad wczytywania pliku: "

\* df.head(10)
CSV_PREVIEW_ROWS == 10

\* json_data[:100]
JSON_PREVIEW_ITEMS == 100

\* a slip: the exception's text is lost, as for an exception built from
\* keyword arguments only, without a __str__ of its own
ExcStr_empty_for_http(e) == IF e.type = "HTTPException" THEN <<>> ELSE e.msg

\* str(e) at line 178: an HTTPException prints as "<status_code>: <detail>"
\* (Starlette's HTTPException.__str__), any other exception as its message
ExcStr(e) ==
    IF e.type = "HTTPException" THEN <<"400", ": ">> \o e.msg ELSE e.msg

NoMetadata ==
    [total_rows |-> 0, total_columns |-> 0, columns |-> <<>>, dtypes |-> <<>>,
     structure_type |-> ""]

\* lines 175-179: whatever was raised inside the try is raised again as
\* HTTPException(400, "Blad wczytywania pliku: " + str(e)); cause is the
\* exception caught
LoadError(e, steps) ==
    [ok |-> FALSE,
     exc |-> HTTPException(400, <<MsgLoadPrefix>> \o ExcStr(e)),
     cause |-> e,
     file_info |-> [filename |-> <<>>, size |-> 0],
     data |-> PyNone, metadata |-> NoMetadata, steps |-> steps]

LoadOk(file, data, metadata, steps) ==
    [ok |-> TRUE, exc |-> NoException, cause |-> NoException,
     file_info |-> [filename |-> file.filename, size |-> ByteLen(file.content)],
     data |-> data, metadata |-> metadata, steps |-> steps]

\* lines 123-143
load_csv(file, decoded_content, native) ==
    LET steps == <<"read", "decode", "detect", "parse">>
        separator == detect_csv_separator(decoded_content)
        parsed == read_csv(decoded_content, separator)
        df == parsed.df
        records == to_dict_records(df, CSV_PREVIEW_ROWS, native)
        data == [r \in 1..Len(records) |-> _convert_to_serializable(records[r])]
    IN IF ~parsed.ok THEN LoadError(parsed.exc, steps)
       ELSE LoadOk(file, PyList(data),
                   [total_rows |-> Len(df.rows), total_columns |-> Len(df.columns),
                    columns |-> df.columns, dtypes |-> df.dtypes,
                    structure_type |-> ""],
                   steps)

\* lines 145-167
load_json(file, decoded_content) ==
    LET steps == <<"read", "decode", "parse">>
        loaded == json_loads(decoded_content)
        json_data == loaded.val
        preview_data == IF json_data.t = "list"
                        THEN PyList(Take(json_data.v, JSON_PREVIEW_ITEMS))
                        ELSE json_data
        df == IF json_data.t = "list" THEN from_records(preview_data.v)
              ELSE single_row_frame(json_data)
    IN IF ~loaded.ok
       THEN LoadError(Exception("JSONDecodeError", <<"Expecting value">>), steps)
       ELSE IF ~df.ok THEN LoadError(df.exc, steps)
       ELSE LoadOk(file, _convert_to_serializable(preview_data),
                   [total_rows |-> df.rows, total_columns |-> Len(df.columns),
                    columns |-> df.columns, dtypes |-> <<>>,
                    structure_type |-> IF json_data.t = "list" THEN "list" ELSE "dict"],
                   steps)

\* FileLoader.load_file
load_file(file, native) ==
    LET decoded_content == decode_content(file.content) IN
    IF EndsWith(lower(file.filename), ExtCsv)
    THEN load_csv(file, decoded_content, native)
    ELSE IF EndsWith(lower(file.filename), ExtJson)
    THEN load_json(file, decoded_content)
    ELSE LoadError(HTTPException(400, MsgUnsupported), <<"read", "decode">>)

\* FileValidator.validate_csv_content
validate_csv_content(file) ==
    LET decoded_content == decode_content(file.content)
        separator == detect_csv_separator(decoded_content)
        parsed == read_csv(decoded_content, separator)
    IN IF ~parsed.ok
       THEN Invalid(<<"Blad parsowania CSV: ">> \o ExcStr(parsed.exc))
       ELSE IF parsed.df.rows = <<>> \/ parsed.df.columns = <<>>
       THEN Invalid(<<"Plik CSV jest pusty">>)
       ELSE [Valid(<<"Zawartosc CSV OK">>) EXCEPT
                 !.rows = Len(parsed.df.rows), !.columns = Len(parsed.df.columns)]

(***************************************************************************)
(* The HTTP handlers.  A response is [kind, status, detail, steps, ...];   *)
(* steps lists, in order, the stages the handler ran.                      *)
(***************************************************************************)

NoBody == [none |-> TRUE]

Response(kind, status, detail, steps, body) ==
    [kind |-> kind, status |-> status, detail |-> detail, steps |-> steps,
     body |-> body]

\* POST /validate/csv
validate_csv(file) ==
    LET size_result == validate_file_size(file)
        format_result == validate_csv_format(file)
        content_result == validate_csv_content(file)
        content_steps == <<"size", "format", "read", "decode", "detect", "parse">>
    IN IF ~size_result.valid
       THEN Response("validate", 400, size_result.message, <<"size">>, NoBody)
       ELSE IF ~format_result.valid
       THEN Response("validate", 400, format_result.message, <<"size", "format">>,
                     NoBody)
       ELSE IF ~content_result.valid
       THEN Response("validate", 400, content_result.message, content_steps, NoBody)
       ELSE Response("validate", 200, <<"Plik CSV jest poprawny">>, content_steps,
                     content_result)

\* POST /validate/json
validate_json(file) ==
    LET size_result == validate_file_size(file)
        format_result == validate_json_format(file)
        content_result == validate_json_content(file)
        content_steps == <<"size", "format", "read", "decode", "parse">>
    IN IF ~size_result.valid
       THEN Response("validate", 400, size_result.message, <<"size">>, NoBody)
       ELSE IF ~format_result.valid
       THEN Response("validate", 400, format_result.message, <<"size", "format">>,
                     NoBody)
       ELSE IF ~content_result.valid
       THEN Response("validate", 400, content_result.message, content_steps, NoBody)
       ELSE Response("validate", 200, <<"Plik JSON jest poprawny">>, content_steps,
                     content_result)

\* POST /validate/auto
validate_auto(file) ==
    IF file.filename = <<>>
    THEN Response("validate", 400, <<"Brak nazwy pliku">>, <<>>, NoBody)
    ELSE IF EndsWith(lower(file.filename), ExtCsv) THEN validate_csv(file)
    ELSE IF EndsWith(lower(file.filename), ExtJson) THEN validate_json(file)
    ELSE Response("validate", 400, MsgUnsupported, <<>>, NoBody)

\* json.dumps(content, allow_nan=False) of JSONResponse raises ValueError on
\* a float that is NaN or infinite
RECURSIVE HasNonFinite(_)
HasNonFinite(x) ==
    CASE x.t \in {"float_nan", "float_inf"} -> TRUE
      [] x.t = "list" -> \E i \in 1..Len(x.v) : HasNonFinite(x.v[i])
      [] x.t = "dict" -> \E i \in 1..Len(x.v) : HasNonFinite(x.v[i][2])
      [] OTHER -> FALSE

\* f"{file_id}_{file.filename}", line 403
StoredName(file_id, filename) == file_id \o <<"_">> \o filename

\* open(storage_path, "wb").write(content): the file is created or replaced
WriteFile(store, name, content, now) ==
    {f \in store : f.name # name}
        \cup {[name |-> name, content |-> content, mtime |-> now]}

\* lines 393-416 of upload_file, given the result of the size check and
\* what load_file returned or raised: the response, and whether the file was
\* written (stored)
upload_response(file_id, size_result, result) ==
    IF ~size_result.valid
    THEN [stored |-> FALSE,
          response |-> Response("upload", 400, size_result.message, <<"size">>,
                                NoBody)]
    ELSE IF ~result.ok
    THEN [stored |-> FALSE,
          response |-> Response("upload", 400, result.exc.msg,
                                <<"size">> \o result.steps, NoBody)]
    ELSE IF HasNonFinite(result.data)
    THEN [stored |-> TRUE,
          response |-> Response("upload", 500, <<"Internal Server Error">>,
                                <<"size">> \o result.steps \o <<"uuid", "write">>,
                                NoBody)]
    ELSE [stored |-> TRUE,
          response |-> Response("upload", 200, <<"Plik wczytany pomyslnie">>,
                                <<"size">> \o result.steps \o <<"uuid", "write">>,
                                [file_id |-> file_id,
                                 file_info |-> result.file_info,
                                 data |-> result.data,
                                 metadata |-> result.metadata])]

\* POST /upload, for the id uuid.uuid4() returns
upload_file(file, native, file_id) ==
    upload_response(file_id, validate_file_size(file), load_file(file, native))

\* a slip: the name is cut at the last "_" (rsplit)
DisplayName_rsplit(fname) ==
    LET pieces == Split(fname, "_") IN pieces[Len(pieces)]

\* fname.split("_", 1)[1], line 429
DisplayName(fname) == SplitN(fname, "_", 1)[2]

\* the files download_file's loop can stop at: os.listdir gives no order
Matching(store, file_id) ==
    {f \in store : StartsWith(f.name, file_id \o <<"_">>)}

\* GET /download/{file_id}: the responses it can give
download_file(store, file_id) ==
    IF Matching(store, file_id) = {}
    THEN {Response("download", 404, <<"Plik nie znaleziony">>, <<>>, NoBody)}
    ELSE {Response("download", 200, <<>>, <<>>,
                   [filename |-> DisplayName(f.name), content |-> f.content]) :
              f \in Matching(store, file_id)}

\* a slip: every run uses the default age of 24 hours
IsOld_default_age(now, mtime, max_age_hours) == now - mtime > 24 * 3600

\* current_time - os.path.getmtime(fpath) > max_age_hours * 3600, line 32
IsOld(now, mtime, max_age_hours) == now - mtime > max_age_hours * 3600

\* a slip: the first removal that fails ends the sweep
cleanup_stops_at_failure(store, now, max_age_hours, reached, failing) ==
    IF failing # {} THEN store
    ELSE {f \in store : ~(f.name \in reached /\ IsOld(now, f.mtime, max_age_hours))}

\* cleanup_old_files: what is left of the store.  reached are the files the
\* loop came to before it ended: all of them, or fewer when os.listdir or
\* os.path.getmtime raised and the outer except ended the sweep; failing are
\* the files os.remove raises for, which the inner except passes over.
cleanup_old_files(store, now, max_age_hours, reached, failing) ==
    {f \in store : ~(/\ f.name \in reached
                     /\ IsOld(now, f.mtime, max_age_hours)
                     /\ f.name \notin failing)}

(***************************************************************************)
(* Inputs.  A file is [filename, content]; JsonText writes the document of *)
(* a value, the text a client uploads for it.                              *)
(***************************************************************************)

File(filename, body, pad) ==
    [filename |-> filename, content |-> [body |-> body, pad |-> pad]]

DigitChar(n) ==
    CASE n = 0 -> "0" [] n = 1 -> "1" [] n = 2 -> "2" [] n = 3 -> "3"
      [] n = 4 -> "4" [] n = 5 -> "5" [] n = 6 -> "6" [] n = 7 -> "7"
      [] n = 8 -> "8" [] n = 9 -> "9"

RECURSIVE JsonText(_), JsonElems(_, _), JsonMembers(_, _)
JsonText(x) ==
    CASE x.t = "NoneType" -> <<"n", "u", "l", "l">>
      [] x.t = "bool" -> IF x.v THEN <<"t", "r", "u", "e">>
                         ELSE <<"f", "a", "l", "s", "e">>
      [] x.t = "int" -> IF x.v < 10 THEN <<DigitChar(x.v)>>
                        ELSE JsonText(PyInt(x.v \div 10)) \o <<DigitChar(x.v % 10)>>
      [] x.t = "float_nan" -> <<"N", "a", "N">>
      [] x.t = "float_inf" -> <<"I", "n", "f", "i", "n", "i", "t", "y">>
      [] x.t = "str" -> <<"\"">> \o x.v \o <<"\"">>
      [] x.t = "list" -> <<"[">> \o JsonElems(x.v, 1) \o <<"]">>
      [] x.t = "dict" -> <<"{">> \o JsonMembers(x.v, 1) \o <<"}">>

JsonElems(xs, i) ==
    IF i > Len(xs) THEN <<>>
    ELSE (IF i > 1 THEN <<",">> ELSE <<>>) \o JsonText(xs[i]) \o JsonElems(xs, i + 1)

JsonMembers(items, i) ==
    IF i > Len(items) THEN <<>>
    ELSE (IF i > 1 THEN <<",">> ELSE <<>>)
         \o <<"\"">> \o items[i][1] \o <<"\"", ":">> \o JsonText(items[i][2])
         \o JsonMembers(items, i + 1)

\* how many elements a generated list or dict holds at most
MaxItems == 2

\* the sequences over S of length at most n
SeqsUpTo(S, n) == UNION {[1..k -> S] : k \in 0..n}

Str_a == <<"a">>
Str_b == <<"b">>

KeyNames == <<Str_a, Str_b, <<"c">>, <<"d">>>>

\* the dicts with keys KeyNames[1..k], k <= n, and values in S
DictsUpTo(S, n) ==
    {PyDict([i \in 1..Len(vs) |-> <<KeyNames[i], vs[i]>>]) : vs \in SeqsUpTo(S, n)}

JsonAtoms == {PyInt(1), PyStr(Str_a), PyNone}

\* what a root's elements and values are drawn from: scalars, flat and
\* nested lists, flat and nested records
JsonInner ==
    JsonAtoms \cup
    { PyList(<<>>), PyList(<<PyInt(1), PyStr(Str_a)>>),
      PyList(<<PyList(<<>>)>>), PyList(<<PyInt(1), PyDict(<<>>)>>),
      PyDict(<<>>), PyDict(<< <<Str_a, PyInt(1)>> >>),
      PyDict(<< <<Str_a, PyList(<<PyInt(1)>>)>> >>),
      PyDict(<< <<Str_a, PyDict(<< <<Str_b, PyInt(1)>> >>)>> >>) }

JsonScalars ==
    { PyInt(0), PyInt(1), PyInt(12), PyStr(<<>>), PyStr(Str_a), PyBool(TRUE),
      PyBool(FALSE), PyNone, PyNaN }

JsonRoots ==
    JsonScalars
    \cup {PyList(xs) : xs \in SeqsUpTo(JsonInner, MaxItems)}
    \cup DictsUpTo(JsonInner, MaxItems)

\* texts json.loads rejects
MalformedTexts ==
    { <<>>, <<"{">>, <<"[", "1", ",", "]">>, <<"a", ",", "b", "\n", "1", ",", "2">>,
      <<"{", "\"", "a", "\"", "}">>, <<"0", "1">> }

Malformed == [t |-> "malformed", v |-> 0]

Name_x_json == <<"x", ".", "j", "s", "o", "n">>

\* the requests of SpecJson: the document a text was written from, and the file
JsonRequests ==
    {[doc |-> x, file |-> File(Name_x_json, JsonText(x), 0)] : x \in JsonRoots}
    \cup {[doc |-> Malformed, file |-> File(Name_x_json, t, 0)] : t \in MalformedTexts}

NoResponse == [kind |-> "none"]

StoreIdle ==
    /\ storage = {}
    /\ clock = 0
    /\ ticks = 0
    /\ issued = {}
    /\ puts = {}
    /\ sweep = [kind |-> "none"]

(***************************************************************************)
(* SpecJson: validate_json_content applied to one uploaded document.       *)
(***************************************************************************)

InitJson ==
    /\ StoreIdle
    /\ req \in JsonRequests
    /\ resp = NoResponse

ValidateJsonContent ==
    /\ resp.kind = "none"
    /\ resp' = [kind |-> "validation", result |-> validate_json_content(req.file)]
    /\ UNCHANGED <<storeVars, req>>

NextJson == ValidateJsonContent

SpecJson == InitJson /\ [][NextJson]_vars


\* The words of the spec's data model, stated on the uploaded document.
IsMapping(x) == x.t = "dict"
IsSequence(x) == x.t = "list"
IsScalar(x) == ~IsMapping(x) /\ ~IsSequence(x)

ValuesOf(d) == {d.v[i][2] : i \in 1..Len(d.v)}

\* a record: a flat mapping whose values are scalars or sequences of scalars
IsFlatRecord(x) ==
    /\ IsMapping(x)
    /\ \A val \in ValuesOf(x) :
          \/ IsScalar(val)
          \/ IsSequence(val) /\ \A e \in Range(val.v) : IsScalar(e)

\* a sequence value holding a mapping or a sequence
IsComplexSequence(val) ==
    IsSequence(val) /\ \E e \in Range(val.v) : IsMapping(e) \/ IsSequence(e)

IsOffending(val) == IsMapping(val) \/ IsComplexSequence(val)

\* the first value, in document order, that is a mapping or a complex sequence
FirstOffending(d) ==
    d.v[CHOOSE i \in 1..Len(d.v) :
            /\ IsOffending(d.v[i][2])
            /\ \A k \in 1..(i - 1) : ~IsOffending(d.v[k][2])][2]

IsFalsyRoot(x) ==
    x \in {PyNone, PyBool(FALSE), PyInt(0), PyStr(<<>>), PyList(<<>>), PyDict(<<>>)}

Validated == resp.kind = "validation" /\ req.doc # Malformed

C7_MappingRoot ==
    Validated =>
        LET doc == req.doc
            r == resp.result
        IN /\ (IsMapping(doc) /\ doc.v # <<>>) =>
                 /\ r.valid <=> \A val \in ValuesOf(doc) : ~IsOffending(val)
                 /\ r.valid => /\ r.type = "dict"
                               /\ r.keys = Cardinality({doc.v[i][1] : i \in 1..Len(doc.v)})
                               /\ r.items = -1
                 /\ ~r.valid =>
                      r.message = IF IsMapping(FirstOffending(doc))
                                  THEN MsgNestedObjects ELSE MsgComplexLists
           /\ IsFalsyRoot(doc) => ~r.valid /\ r.message = MsgJsonEmpty
           /\ (~IsFalsyRoot(doc) /\ ~IsMapping(doc) /\ ~IsSequence(doc)) =>
                 ~r.valid /\ r.message = MsgObjectOrList

\* a mapping with two keys, one of them a non-empty sequence of scalars, was
\* found valid
C7_Witness ==
    /\ Validated
    /\ IsMapping(req.doc)
    /\ \E val \in ValuesOf(req.doc) : IsSequence(val) /\ val.v # <<>>
    /\ resp.result.valid
    /\ resp.result.type = "dict"
    /\ resp.result.keys = 2


(***************************************************************************)
(* SpecConv: _convert_to_serializable applied to one value.                *)
(***************************************************************************)

Str_ts == <<"2", "0", "2", "4", "-", "0", "1", "-", "0", "1">>
Str_td == <<"1", " ", "d", "a", "y", "s">>

\* temporal values, numeric wrappers, missing markers and plain scalars
ConvAtoms ==
    { PdTimestamp(Str_ts), PdTimedelta(Str_td), PdNaT, PdNA,
      NpInt64(1), NpFloat64(1), NpFloat64NaN,
      PyNone, PyNaN, PyFloat(1), PyInt(1), PyBool(TRUE), PyStr(Str_a) }

ConvInner ==
    ConvAtoms \cup {PyList(<<x>>) : x \in ConvAtoms}
              \cup {PyTuple(<<x>>) : x \in ConvAtoms}
              \cup {PyDict(<< <<Str_a, x>> >>) : x \in ConvAtoms}

ConvValues ==
    ConvInner
    \cup {PyList(xs) : xs \in SeqsUpTo(ConvAtoms, MaxItems)}
    \cup {PyTuple(xs) : xs \in SeqsUpTo(ConvAtoms, MaxItems)}
    \cup {PyDict(<< <<Str_b, x>> >>) : x \in ConvInner}
    \cup {PyList(<<x>>) : x \in ConvInner}

InitConv ==
    /\ StoreIdle
    /\ req \in {[value |-> x] : x \in ConvValues}
    /\ resp = NoResponse

ConvertToSerializable ==
    /\ resp.kind = "none"
    /\ resp' = [kind |-> "converted", value |-> _convert_to_serializable(req.value)]
    /\ UNCHANGED <<storeVars, req>>

NextConv == ConvertToSerializable

SpecConv == InitConv /\ [][NextConv]_vars

\* C8: canonicalizing a canonicalized value returns it unchanged.
C8_Idempotent ==
    resp.kind = "converted" =>
        _convert_to_serializable(resp.value) = resp.value

(***************************************************************************)
(* SpecDetect: detect_csv_separator applied to one text.                   *)
(***************************************************************************)

\* how many lines a generated text has at most
MaxLines == 3

DetectLines ==
    { <<>>, <<"a">>, <<" ">>,
      <<"a", ",", "b">>, <<",", ",">>,
      <<"a", ";", "b">>, <<"a", ";", "b", ";", "c">>,
      <<"\t">>, <<"a", "\t", "b">>,
      <<"a", "|", "b">>, <<"|", "|">>,
      <<",", ";">>, <<",", ",", ";", ";">>, <<",", ",", ",", ";">> }

RECURSIVE JoinLines(_)
JoinLines(ls) ==
    IF Len(ls) = 1 THEN ls[1]
    ELSE ls[1] \o <<"\n">> \o JoinLines(Tail(ls))

\* texts of one line more than the detector samples
LongTexts ==
    {JoinLines(head \o <<last>>) :
        head \in [1..SAMPLE_LINES -> {<<",">>, <<";", ";">>, <<>>}],
        last \in {<<",", ",">>, <<";">>, <<"|", "|", "|">>}}

DetectTexts ==
    {JoinLines(ls) : ls \in UNION {[1..k -> DetectLines] : k \in 1..MaxLines}}
        \cup LongTexts

InitDetect ==
    /\ StoreIdle
    /\ req \in {[text |-> t] : t \in DetectTexts}
    /\ resp = NoResponse

DetectCsvSeparator ==
    /\ resp.kind = "none"
    /\ resp' = [kind |-> "separator", sep |-> detect_csv_separator(req.text)]
    /\ UNCHANGED <<storeVars, req>>

NextDetect == DetectCsvSeparator

SpecDetect == InitDetect /\ [][NextDetect]_vars

\* the lines of a text: the pieces between newlines, a final newline ending
\* the last line
TextLines(text) ==
    LET pieces == Split(text, "\n") IN
    IF pieces[Len(pieces)] = <<>> THEN SubSeq(pieces, 1, Len(pieces) - 1)
    ELSE pieces

\* every line has exactly k > 0 occurrences of sep and none of the other
\* candidates
SingleSeparatorText(text, sep) ==
    LET ls == TextLines(text) IN
    /\ ls # <<>>
    /\ Count(ls[1], sep) > 0
    /\ \A i \in 1..Len(ls) :
          /\ Count(ls[i], sep) = Count(ls[1], sep)
          /\ \A other \in Range(COMMON_SEPARATORS) \ {sep} : Count(ls[i], other) = 0

NoSeparatorText(text) ==
    \A sep \in Range(COMMON_SEPARATORS) : Count(text, sep) = 0

\* C5: a text whose every line has exactly k > 0 occurrences of one candidate
\* separator and none of the others is detected as that separator, for
\* every k; a text without any candidate separator is detected as comma.
C5_SingleSeparatorDetected ==
    resp.kind = "separator" =>
        /\ \A sep \in Range(COMMON_SEPARATORS) :
              SingleSeparatorText(req.text, sep) => resp.sep = sep
        /\ NoSeparatorText(req.text) => resp.sep = ","

\* the sampled lines that count: the non-blank ones among the first five
CountedLines(text) ==
    LET ls == Split(text, "\n") IN
    {i \in 1..Len(ls) : i <= SAMPLE_LINES /\ ~IsBlank(ls[i])}

\* the lines of the sample in which the candidate occurs
LinesWith(text, sep) ==
    {i \in CountedLines(text) : Count(Split(text, "\n")[i], sep) > 0}

Occurs(text, sep) == LinesWith(text, sep) # {}

\* the candidate's positive counts are all equal
SameCountEverywhere(text, sep) ==
    /\ Occurs(text, sep)
    /\ \A i \in LinesWith(text, sep), j \in LinesWith(text, sep) :
           Count(Split(text, "\n")[i], sep) = Count(Split(text, "\n")[j], sep)

RECURSIVE SumOver(_, _, _)
SumOver(text, sep, lines) ==
    IF lines = {} THEN 0
    ELSE LET i == CHOOSE l \in lines : TRUE
         IN Count(Split(text, "\n")[i], sep) + SumOver(text, sep, lines \ {i})

\* the average count of a is higher than that of b, both occurring
HigherAverage(text, a, b) ==
    SumOver(text, a, LinesWith(text, a)) * Cardinality(LinesWith(text, b))
        > SumOver(text, b, LinesWith(text, b)) * Cardinality(LinesWith(text, a))

\* the reference of C11, by the position of the candidate in the fixed order
ReferenceSeparator(text) ==
    LET n == Len(COMMON_SEPARATORS)
        sep(j) == COMMON_SEPARATORS[j]
        consistent == {j \in 1..n : SameCountEverywhere(text, sep(j))}
        occurring == {j \in 1..n : Occurs(text, sep(j))}
    IN IF consistent # {}
       THEN sep(CHOOSE j \in consistent : \A k \in consistent : j <= k)
       ELSE IF occurring = {} THEN ","
       ELSE sep(CHOOSE j \in occurring :
                   /\ \A k \in occurring : ~HigherAverage(text, sep(k), sep(j))
                   /\ \A k \in occurring :
                          k < j => HigherAverage(text, sep(j), sep(k)))

\* the text cut after its first five lines
FirstLinesOnly(text) == JoinLines(Take(Split(text, "\n"), SAMPLE_LINES))

\* C11: on every text the detector returns what the reference returns: the
\* first candidate, in the order comma, semicolon, tab, pipe, whose positive
\* counts over the non-blank lines among the first five are all equal, even
\* when another candidate has a higher average; else the candidate of the
\* highest average, the earlier one on a tie; else comma.  What follows the
\* fifth line does not change the result, and the result is a candidate.
C11_EqualsReference ==
    resp.kind = "separator" =>
        /\ resp.sep = ReferenceSeparator(req.text)
        /\ resp.sep = detect_csv_separator(FirstLinesOnly(req.text))
        /\ resp.sep \in Range(COMMON_SEPARATORS)

\* a text of six lines is detected as comma although its sixth line has
\* another number of commas than its first
C11_Witness ==
    /\ resp.kind = "separator"
    /\ resp.sep = ","
    /\ Len(Split(req.text, "\n")) > SAMPLE_LINES
    /\ Count(Split(req.text, "\n")[1], ",") = 1
    /\ Count(Split(req.text, "\n")[SAMPLE_LINES + 1], ",") = 2


(***************************************************************************)
(* The service: uploads, downloads, sweeps and the passing of time.        *)
(***************************************************************************)

\* how many uploads are stored at most
MaxUploads == 2

\* how many times the clock advances at most
MaxTicks == 2

\* the length of an id, standing for the 36 characters of a UUID
IdLen == 1

\* the characters of a UUID: hexadecimal digits and "-", never "_"
IdChars == {"0", "f"}

Ids == [1..IdLen -> IdChars]

\* the clock advances by a second or by a day
TickSteps == {1, 24 * 3600}

\* the startup sweep's default, and the immediate sweep
MaxAges == {24, 0}

Name_a_csv == <<"a", ".", "c", "s", "v">>
Name_a_b_csv == <<"a", "_", "b", ".", "c", "s", "v">>
Name_n_txt == <<"n", ".", "t", "x", "t">>

Body_ab == <<"a", ",", "b", "\n", "1", ",", "2">>
Body_a == <<"a", "\n", "1">>

\* two files of one name, a name with "_", a name that is refused and a file
\* over the size limit
ServiceFiles ==
    {File(Name_a_csv, Body_ab, 0), File(Name_a_csv, Body_a, 0),
     File(Name_a_b_csv, Body_ab, 0), File(Name_n_txt, Body_a, 0),
     File(Name_a_csv, Body_a, MAX_FILE_SIZE)}

\* the ids a client may ask for: every id, the empty one, and every part of a
\* stored name that ends before a "_"
DownloadIds(store) ==
    Ids \cup {<<>>}
        \cup UNION {{SubSeq(f.name, 1, n - 1) : n \in {i \in 1..Len(f.name) : f.name[i] = "_"}} :
                        f \in store}

\* the files a sweep at time now would try to remove
OldFiles(store, now, max_age_hours) ==
    {f.name : f \in {g \in store : IsOld(now, g.mtime, max_age_hours)}}

NoRequest == [op |-> "none"]

Init ==
    /\ StoreIdle
    /\ req = NoRequest
    /\ resp = NoResponse

\* POST /upload
Upload(file, native) ==
    \E file_id \in Ids \ issued : \E out \in {upload_file(file, native, file_id)} :
        /\ out.stored => Cardinality(issued) < MaxUploads
        /\ req' = [op |-> "upload", file |-> file]
        /\ resp' = out.response
        /\ storage' = IF out.stored
                      THEN WriteFile(storage, StoredName(file_id, file.filename),
                                     file.content, clock)
                      ELSE storage
        /\ issued' = IF out.stored THEN issued \cup {file_id} ELSE issued
        /\ puts' = IF out.response.status = 200
                   THEN puts \cup {[file_id |-> file_id, filename |-> file.filename,
                                    content |-> file.content, time |-> clock]}
                   ELSE puts
        /\ UNCHANGED <<clock, ticks, sweep>>

\* GET /download/{file_id}
Download(file_id) ==
    /\ req' = [op |-> "download", file_id |-> file_id]
    /\ resp' \in download_file(storage, file_id)
    /\ UNCHANGED storeVars

\* cleanup_old_files(max_age_hours), at startup or later
Cleanup(max_age_hours, reached, failing) ==
    /\ req' = [op |-> "cleanup", max_age_hours |-> max_age_hours]
    /\ resp' = Response("cleanup", 0, <<>>, <<>>, NoBody)
    /\ storage' = cleanup_old_files(storage, clock, max_age_hours, reached, failing)
    /\ sweep' = [kind |-> "sweep", max_age_hours |-> max_age_hours, time |-> clock,
                 completed |-> reached = {f.name : f \in storage},
                 failed |-> failing,
                 before |-> {p.file_id : p \in puts},
                 store_before |-> storage]
    /\ UNCHANGED <<clock, ticks, issued, puts>>

Tick(dt) ==
    /\ ticks < MaxTicks
    /\ clock' = clock + dt
    /\ ticks' = ticks + 1
    /\ UNCHANGED <<storage, issued, puts, sweep, req, resp>>

\* the service's files hold no missing cell, so the boxing of the preview's
\* values plays no part here
Next ==
    \/ \E file \in ServiceFiles : Upload(file, TRUE)
    \/ \E file_id \in DownloadIds(storage) : Download(file_id)
    \/ \E h \in MaxAges : \E reached \in SUBSET {f.name : f \in storage} :
          \E failing \in SUBSET (reached \cap OldFiles(storage, clock, h)) :
              Cleanup(h, reached, failing)
    \/ \E dt \in TickSteps : Tick(dt)

Spec == Init /\ [][Next]_vars


(***************************************************************************)
(* One request to a server whose storage is empty: the two validations,    *)
(* the validation by extension, the upload and the loader on its own.      *)
(***************************************************************************)

Name_x_csv == <<"x", ".", "c", "s", "v">>
Name_X_CSV == <<"X", ".", "C", "S", "V">>
Name_x_txt == <<"x", ".", "t", "x", "t">>
Name_x == <<"x">>

IngestNames == {Name_x_csv, Name_X_CSV, Name_x_json, Name_x_txt, Name_x}

\* two rows under a header
Csv_two_rows ==
    <<"a", ",", "b", "\n", "1", ",", "2", "\n", "3", ",", "4", "\n">>

\* a header and no row
Csv_header_only == <<"a", ",", "b", "\n">>

\* a later line wider than the header: pandas raises ParserError
Csv_ragged ==
    <<"a", ",", "b", "\n", "1", ",", "2", "\n", "3", ",", "4", ",", "5">>

\* a missing cell, read as NaN
Csv_missing_cell == <<"a", ";", "b", "\n", "1", ";", "\n">>

\* one row more than the preview holds
Csv_eleven_rows ==
    <<"a", "\n", "1", "\n", "1", "\n", "1", "\n", "1", "\n", "1", "\n", "1",
      "\n", "1", "\n", "1", "\n", "1", "\n", "1", "\n", "1", "\n">>

\* a byte that is no UTF-8
Csv_not_utf8 == <<"a", "\n", "\\xff">>

CsvBodies ==
    {Csv_two_rows, Csv_header_only, <<>>, Csv_ragged, Csv_missing_cell,
     Csv_eleven_rows, Csv_not_utf8}

Rec_a1 == PyDict(<< <<Str_a, PyInt(1)>> >>)
Rec_nested == PyDict(<< <<Str_a, PyDict(<< <<Str_b, PyInt(1)>> >>)>> >>)
Rec_list == PyDict(<< <<Str_a, PyList(<<PyInt(1), PyInt(2)>>)>> >>)

JsonDocs ==
    {Rec_a1, Rec_nested, Rec_list,
     PyList(<<Rec_a1, PyDict(<< <<Str_b, PyInt(2)>> >>)>>),
     PyList(<<Rec_nested>>),
     PyList(<<PyInt(1), PyInt(2)>>),
     PyList(<<>>), PyDict(<<>>), PyInt(5), PyNone,
     PyDict(<< <<Str_a, PyInf>> >>)}

JsonBodies == {JsonText(d) : d \in JsonDocs} \cup {<<"{">>}

\* sizes well under the limit, exactly at it and one byte over it
IngestPads(body) ==
    {0, MAX_FILE_SIZE - Len(body), MAX_FILE_SIZE + 1 - Len(body)}

\* a list of n records
RecordList(n) == PyList([i \in 1..n |-> Rec_a1])

\* JSON files of as many records as the preview holds, and of one more
LongJsonFiles ==
    {File(Name_x_json, JsonText(RecordList(n)), 0) :
        n \in {JSON_PREVIEW_ITEMS, JSON_PREVIEW_ITEMS + 1}}

IngestFiles ==
    UNION {{File(n, b, pad) : n \in IngestNames, pad \in IngestPads(b)} :
               b \in CsvBodies \cup JsonBodies}
        \cup LongJsonFiles

FirstRequest == resp.kind = "none"

InitIngest ==
    /\ StoreIdle
    /\ req = NoRequest
    /\ resp = NoResponse

\* POST /validate/csv
ValidateCsv(file) ==
    /\ req' = [op |-> "validate_csv", file |-> file]
    /\ resp' = validate_csv(file)
    /\ UNCHANGED storeVars

\* POST /validate/json
ValidateJson(file) ==
    /\ req' = [op |-> "validate_json", file |-> file]
    /\ resp' = validate_json(file)
    /\ UNCHANGED storeVars

\* POST /validate/auto
ValidateAuto(file) ==
    /\ req' = [op |-> "validate_auto", file |-> file]
    /\ resp' = validate_auto(file)
    /\ UNCHANGED storeVars

\* FileLoader.load_file called on its own: the response keeps its result
LoadFile(file, native) ==
    /\ req' = [op |-> "load_file", file |-> file]
    /\ resp' = [kind |-> "load", result |-> load_file(file, native)]
    /\ UNCHANGED storeVars

NextIngest ==
    \/ \E file \in IngestFiles : FirstRequest /\ ValidateCsv(file)
    \/ \E file \in IngestFiles : FirstRequest /\ ValidateJson(file)
    \/ \E file \in IngestFiles : FirstRequest /\ ValidateAuto(file)
    \/ \E file \in IngestFiles, native \in BOOLEAN :
          FirstRequest /\ Upload(file, native)
    \/ \E file \in IngestFiles, native \in BOOLEAN :
          FirstRequest /\ LoadFile(file, native)

SpecIngest == InitIngest /\ [][NextIngest]_vars


(***************************************************************************)
(* The claims about the storage of uploads.                                *)
(***************************************************************************)

IssuedIds == {p.file_id : p \in puts}

NotFound == Response("download", 404, <<"Plik nie znaleziony">>, <<>>, NoBody)

Found(filename, content) ==
    Response("download", 200, <<>>, <<>>,
             [filename |-> filename, content |-> content])

\* no sweep has run since the put
NoSweepSince(p) == sweep.kind = "none" \/ p.file_id \notin sweep.before

\* C1: after an upload was stored and answered with its id, and as long as no
\* sweep has run since, through any further uploads, a download of that id
\* gives exactly the upload's name, whether it holds a "_" or not, and exactly
\* its bytes.
C1_RoundTrip ==
    \A p \in puts :
        NoSweepSince(p) =>
            /\ download_file(storage, p.file_id) = {Found(p.filename, p.content)}
            /\ (req.op = "download" /\ req.file_id = p.file_id)
                   => resp = Found(p.filename, p.content)

\* a download answers with the first of two uploads, whose name holds a "_",
\* after the second was stored
C1_Witness ==
    /\ req.op = "download"
    /\ resp.status = 200
    /\ resp.body.filename = Name_a_b_csv
    /\ \E p \in puts, q \in puts :
           /\ p.file_id = req.file_id
           /\ q.file_id # p.file_id
           /\ q.time >= p.time
           /\ NoSweepSince(p)

\* the last sweep was a sweep(0) that ran to its end
SweptAll == sweep.kind = "sweep" /\ sweep.max_age_hours = 0 /\ sweep.completed

\* C2 as stated: after a sweep(0), with no removal failing, a download of any
\* id an earlier upload returned finds nothing, whatever time passed between
\* the upload and the sweep, none included.
C2_SweepZeroRemovesAll ==
    (SweptAll /\ sweep.failed = {}) =>
        \A p \in puts :
            p.file_id \in sweep.before =>
                download_file(storage, p.file_id) = {NotFound}

\* C2, amended: after a sweep(0) that ran to its end, a download of an id finds
\* nothing when the upload that returned it was stored before the sweep's
\* time, some time having passed, and the removal of its file did not fail.
C2_SweepZeroRemovesOlder ==
    SweptAll =>
        \A p \in puts :
            (/\ p.file_id \in sweep.before
             /\ p.time < sweep.time
             /\ StoredName(p.file_id, p.filename) \notin sweep.failed)
                => /\ download_file(storage, p.file_id) = {NotFound}
                   /\ (req.op = "download" /\ req.file_id = p.file_id)
                          => resp = NotFound

\* a download finds nothing for an upload stored a second before a sweep(0)
C2_Witness ==
    /\ SweptAll
    /\ req.op = "download"
    /\ resp = NotFound
    /\ \E p \in puts :
           /\ p.file_id = req.file_id
           /\ p.file_id \in sweep.before
           /\ p.time < sweep.time

\* C3: a download of an id that no upload returned finds nothing, whatever
\* the names of the stored files; only an id an upload returned is answered
\* with a file.
C3_UnknownIdNotFound ==
    /\ \A file_id \in DownloadIds(storage) \ IssuedIds :
           download_file(storage, file_id) = {NotFound}
    /\ (req.op = "download" /\ req.file_id \notin IssuedIds) => resp = NotFound

\* the state is the one a sweep left
JustSwept == req.op = "cleanup" /\ sweep.kind = "sweep"

\* the entry was older than the sweep's age when the sweep ran
WasOld(f) == sweep.time - f.mtime > sweep.max_age_hours * 3600

\* every old entry is gone, but those whose removal failed
OldEntriesDeleted ==
    \A f \in sweep.store_before :
        (WasOld(f) /\ f.name \notin sweep.failed) => f \notin storage

\* every entry that was not old is there with its name and bytes, nothing but
\* old entries went and nothing came, and the sweep returned to its caller
OtherEntriesKept ==
    /\ \A f \in sweep.store_before : ~WasOld(f) => f \in storage
    /\ \A f \in sweep.store_before \ storage :
           WasOld(f) /\ f.name \notin sweep.failed
    /\ storage \subseteq sweep.store_before
    /\ resp = Response("cleanup", 0, <<>>, <<>>, NoBody)

\* C13 as stated: a sweep deletes every entry older than its age and leaves
\* every other entry with its name and bytes; a removal that fails does not
\* stop the removal of the other old entries, and no error reaches the caller.
C13_SweepDeletesEveryOld ==
    JustSwept => OldEntriesDeleted /\ OtherEntriesKept

\* C13, amended: a sweep that came to every entry (listing the directory and
\* reading the modification times did not fail) deletes every entry older
\* than its age but those whose removal failed; a sweep that ended early
\* leaves the old entries it did not come to.  In both cases every entry
\* that is not old stays with its name and bytes and no error reaches the
\* caller.
C13_CompletedSweepDeletesOld ==
    JustSwept =>
        /\ sweep.completed => OldEntriesDeleted
        /\ OtherEntriesKept

\* a sweep came to every entry, the removal of one old entry failed and
\* another old entry was deleted
C13_Witness ==
    /\ JustSwept
    /\ sweep.completed
    /\ \E f \in sweep.store_before, g \in sweep.store_before :
           /\ WasOld(f) /\ f.name \in sweep.failed /\ f \in storage
           /\ WasOld(g) /\ g.name \notin sweep.failed /\ g \notin storage

(***************************************************************************)
(* The claims about one request.                                           *)
(***************************************************************************)

SizeChecked == req.op \in {"validate_csv", "validate_json", "upload"}

PastSizeCheck == Len(resp.steps) > 1 /\ resp.steps[1] = "size"

SizeRejected ==
    resp.status = 400 /\ resp.detail = MsgSizeExceeded /\ resp.steps = <<"size">>

\* C4: in the validation of a CSV file, of a JSON file and in the upload, a
\* file of exactly 20 MiB passes the size check, a file one byte larger is
\* refused with the message of the size limit, and the size is checked before
\* anything is decoded, detected or parsed.
C4_SizeCheckFirst ==
    SizeChecked =>
        /\ resp.steps[1] = "size"
        /\ ByteLen(req.file.content) = MAX_FILE_SIZE => PastSizeCheck
        /\ ByteLen(req.file.content) = MAX_FILE_SIZE + 1 => SizeRejected
        /\ SizeRejected <=> ByteLen(req.file.content) > MAX_FILE_SIZE

\* an upload of exactly 20 MiB is stored and answered with its preview
C4_Witness ==
    /\ req.op = "upload"
    /\ ByteLen(req.file.content) = MAX_FILE_SIZE
    /\ resp.status = 200
    /\ storage # {}

PreviewScalarTypes ==
    {"str", "int", "float", "float_nan", "float_inf", "bool", "NoneType"}

\* the records of a preview: the items of a list, or the one object
PreviewRecords(data) ==
    IF data.t = "list" THEN {r \in Range(data.v) : r.t = "dict"}
    ELSE IF data.t = "dict" THEN {data}
    ELSE {}

AllValuesScalar(data) ==
    \A r \in PreviewRecords(data) :
        \A v \in Range(DictValues(r)) : v.t \in PreviewScalarTypes

\* C9: for every file the loader accepts, CSV or JSON, every value of every
\* record of the preview is a string, a number, a boolean or null, never an
\* object or a list.
C9_PreviewValuesScalar ==
    /\ (resp.kind = "load" /\ resp.result.ok) => AllValuesScalar(resp.result.data)
    /\ (req.op = "upload" /\ resp.status = 200) => AllValuesScalar(resp.body.data)

\* the parts of a message hold the parts of another, in a row
Carries(message, part) ==
    \E i \in 0..(Len(message) - Len(part)) :
        SubSeq(message, i + 1, i + Len(part)) = part

Unsupported(filename) ==
    ~EndsWith(lower(filename), ExtCsv) /\ ~EndsWith(lower(filename), ExtJson)

\* C10: every failure of the loader, an extension that is neither .csv nor
\* .json or an exception raised while parsing, reaches the caller as the one
\* failure of loading (status 400, the loading prefix), and its detail holds
\* the message of the failure it came from: for an extension that is not
\* supported, the message naming the supported formats.
C10_SingleLoadFailure ==
    /\ (resp.kind = "load" /\ ~resp.result.ok) =>
           /\ resp.result.exc.type = "HTTPException"
           /\ resp.result.exc.status_code = 400
           /\ resp.result.exc.msg[1] = MsgLoadPrefix
           /\ resp.result.cause.msg # <<>>
           /\ Carries(resp.result.exc.msg, resp.result.cause.msg)
           /\ Unsupported(req.file.filename)
                  => Carries(resp.result.exc.msg, MsgUnsupported)
    /\ (resp.kind = "load" /\ Unsupported(req.file.filename)) => ~resp.result.ok
    /\ (req.op = "upload" /\ resp.status = 400 /\ ~SizeRejected) =>
           /\ resp.detail[1] = MsgLoadPrefix
           /\ Unsupported(req.file.filename) => Carries(resp.detail, MsgUnsupported)

\* the loader refuses a file whose extension is not supported
C10_Witness ==
    /\ resp.kind = "load"
    /\ ~resp.result.ok
    /\ Unsupported(req.file.filename)
    /\ Carries(resp.result.exc.msg, MsgUnsupported)


\* the rows of the whole upload: the lines of a CSV file that are not blank,
\* less the header; the items of a JSON list; one for any other JSON document
RowsOfUpload(file) ==
    IF EndsWith(lower(file.filename), ExtCsv)
    THEN Len(CsvLines(Split(decode_content(file.content), "\n"),
                      detect_csv_separator(decode_content(file.content)), 1)) - 1
    ELSE IF json_loads(decode_content(file.content)).val.t = "list"
    THEN Len(json_loads(decode_content(file.content)).val.v)
    ELSE 1

\* the number of records of a preview; a JSON document that is no list is
\* one record
PreviewLen(data) == IF data.t = "list" THEN Len(data.v) ELSE 1

\* total_rows counts the whole upload and the preview is capped
TotalOfWhole(file, data, metadata) ==
    /\ metadata.total_rows = RowsOfUpload(file)
    /\ PreviewLen(data) <= IF EndsWith(lower(file.filename), ExtCsv)
                           THEN CSV_PREVIEW_ROWS ELSE JSON_PREVIEW_ITEMS

\* C12: for every accepted upload total_rows is the number of rows or records
\* of the whole parsed upload, not of the preview; the preview holds at most
\* 10 records of a CSV file and at most 100 of a JSON list, and a JSON list of
\* n > 100 records reports total_rows = n.
C12_TotalRowsOfWholeUpload ==
    /\ (resp.kind = "load" /\ resp.result.ok) =>
           TotalOfWhole(req.file, resp.result.data, resp.result.metadata)
    /\ (req.op = "upload" /\ resp.status = 200) =>
           TotalOfWhole(req.file, resp.body.data, resp.body.metadata)


\* the upload was refused by the size check or by the loader
RefusedUpload ==
    /\ req.op = "upload"
    /\ \/ ByteLen(req.file.content) > MAX_FILE_SIZE
       \/ ~load_file(req.file, TRUE).ok

\* the store is as the request found it: empty, and no id was made
StoreUntouched == storage = {} /\ issued = {} /\ puts = {}

\* C14: an upload request that fails, by its size, by an extension that is
\* not supported or by a failure of decoding or parsing in the loader, leaves
\* the store as it was: no entry is written and no id is issued.  An entry is
\* written only after the size check and the loader have both succeeded, and
\* it then holds the upload's bytes in full.
C14_FailedUploadStoresNothing ==
    req.op = "upload" =>
        /\ resp.status # 200 => StoreUntouched
        /\ RefusedUpload => (resp.status = 400 /\ StoreUntouched)
        /\ \A f \in storage :
               /\ ~RefusedUpload
               /\ f.content = req.file.content
               /\ \E file_id \in issued : f.name = StoredName(file_id, req.file.filename)

=============================================================================
